---- MODULE Spec2Model ----
(***************************************************************************)
(* A model of packetloggeapi.py: the framing reader (PacketIterator), the  *)
(* connection (PacketLogger), the record parser (Packet.from_string) and   *)
(* the per-thread registry of current connections.                         *)
(*                                                                         *)
(* Text is a sequence of code points, transport data a sequence of bytes.  *)
(***************************************************************************)
EXTENDS Integers, Sequences, FiniteSets, TLC

\* ------------------------------------------------------------------ bounds
\* Longest byte stream a peer puts on a transport in the framing runs.
MaxStream == 4

\* Longest byte stream in the runs that compare two chunkings.
MaxChunked == 3

\* Longest line given to Packet.from_string.
MaxLine == 6

\* Longest payload given to PacketLogger.send, and the number of sends of a run.
MaxPayload == 3
MaxSends == 1

\* ------------------------------------------------------------- text helpers
\* PacketLogger.DELIM = '\r'
DELIM == 13

\* PacketLogger.BUFFER_SIZE
BUFFER_SIZE == 1024 * 8

SP == 32

None == "None"

Min(a, b) == IF a < b THEN a ELSE b

\* ch in s
Has(s, ch) == \E k \in 1..Len(s) : s[k] = ch

\* s.count(ch)
Count(s, ch) == Cardinality({k \in 1..Len(s) : s[k] = ch})

\* s.index(ch), for a string that has ch
Index(s, ch) == CHOOSE k \in 1..Len(s) : s[k] = ch /\ \A j \in 1..(k - 1) : s[j] # ch

\* s.rsplit(ch, 1), the split at the last ch
RSplit1(s, ch) ==
    LET k == CHOOSE k \in 1..Len(s) : s[k] = ch /\ \A j \in (k + 1)..Len(s) : s[j] # ch
    IN <<SubSeq(s, 1, k - 1), SubSeq(s, k + 1, Len(s))>>

\* s.split(ch, 1), for a string that has ch: <<left, right>>
Split1(s, ch) == <<SubSeq(s, 1, Index(s, ch) - 1), SubSeq(s, Index(s, ch) + 1, Len(s))>>

\* ---------------------------------------------------------------- encoding
\* The bytes windows-1252 leaves undefined: bytes.decode raises on them.
UndefinedBytes == {129, 141, 143, 144, 157}

\* One byte decoded with windows-1252 (the rows of the code page the model uses:
\* ASCII and 0xA0..0xFF map to themselves, 0x80 is the euro sign U+20AC).
DecodeByte(b) == IF b = 128 THEN 8364 ELSE b

\* bytes.decode('windows-1252') succeeds
Decodable(bs) == \A k \in 1..Len(bs) : bs[k] \notin UndefinedBytes

\* bytes.decode('windows-1252')
Decode(bs) == [k \in 1..Len(bs) |-> DecodeByte(bs[k])]

\* str.encode('windows-1252') succeeds
Encodable(s) == \A k \in 1..Len(s) : s[k] = 8364 \/ (s[k] < 256 /\ s[k] \notin 128..159)

\* str.encode('windows-1252')
Encode(s) == [k \in 1..Len(s) |-> IF s[k] = 8364 THEN 128 ELSE s[k]]

\* -------------------------------------------------------------------- state
Conns == {"c1", "c2"}
Iters == {1, 2}

VARIABLES
    stream,     \* the bytes the peer sends on each transport in this run
    ending,     \* what a recv finds once the data is drained: "open" | "eof" | "reset"
    rx,         \* [Conns -> bytes]: sent by the peer, not yet returned by recv
    logger,     \* [Iters -> Conns \cup {None}]: PacketIterator.__packet_logger
    itBuffer,   \* [Iters -> text]: PacketIterator.__buffer
    buffer,     \* [Iters -> text]: the local variable buffer of __next__
    pc,         \* [Iters -> position of the for loop / __next__ call]
    raised,     \* [Iters -> exception that ended the for loop, or None]
    out,        \* [Iters -> sequence of the lines __next__ returned]
    cur,        \* [Iters -> what the current (or last) __next__ call did]
    got,        \* [Iters -> all the text the iterator's reads returned, in order]
    sent,       \* the calls of PacketLogger.send so far: payload and outcome
    line,       \* the argument of the last Packet.from_string call
    packet,     \* what that call returned or raised
    instances,  \* PacketLogger.__instances: the items of the dict, <<ident, connection>>
    tpc,        \* [Threads -> the registry call a thread is in]
    tself,      \* [Threads -> self of that call]
    ret,        \* [Threads -> what the thread's last registry call returned or raised]
    mine,       \* [Threads -> the connection the thread registered last and has
                \*  not unregistered since, else None]
    over,       \* [Threads -> the connection the thread's last set_global replaced]
    scopes,     \* [Threads -> the connections of the with blocks the thread is in,
                \*  outermost first]
    exc         \* [Threads -> the exception propagating in the thread, or None]

framing == <<stream, ending, rx, logger, itBuffer, buffer, pc, raised, out, cur, got>>
parsing == <<line, packet>>
registry == <<instances, tpc, tself, ret, mine, over>>
scoping == <<scopes, exc>>
vars == <<framing, sent, parsing, registry, scoping>>

Threads == {"t1", "t2"}

Endings == {"open", "eof", "reset"}

\* The bytes of the framing runs: '\r', 'a', 0x80 (the euro sign) and the undefined 0x81.
StreamBytes == {13, 97, 128, 129}

RECURSIVE SeqsUpTo(_, _)
SeqsUpTo(S, n) ==
    IF n = 0 THEN {<<>>}
    ELSE LET shorter == SeqsUpTo(S, n - 1)
         IN  shorter \cup {Append(s, x) : s \in {t \in shorter : Len(t) = n - 1}, x \in S}

NoCall == [buf0 |-> <<>>, chunks |-> <<>>, eof |-> FALSE]

\* PacketIterator.__init__ for the iterators in live; the peer's data is on the wire.
InitWith(streams, endings, live) ==
    /\ stream \in streams
    /\ ending \in endings
    /\ rx = [c \in Conns |-> IF \E i \in Iters : live[i] = c THEN stream ELSE <<>>]
    /\ logger = live
    /\ itBuffer = [i \in Iters |-> <<>>]
    /\ buffer = [i \in Iters |-> <<>>]
    /\ pc = [i \in Iters |-> IF live[i] = None THEN "none" ELSE "idle"]
    /\ raised = [i \in Iters |-> None]
    /\ out = [i \in Iters |-> <<>>]
    /\ cur = [i \in Iters |-> NoCall]
    /\ got = [i \in Iters |-> <<>>]
    /\ sent = <<>>

\* no Packet.from_string call yet
NoParse ==
    /\ line = <<>>
    /\ packet = [kind |-> "pending"]

\* __instances = {} and no thread in a registry call
NoRegistry ==
    /\ instances = {}
    /\ tpc = [t \in Threads |-> "idle"]
    /\ tself = [t \in Threads |-> None]
    /\ ret = [t \in Threads |-> [call |-> None, val |-> None]]
    /\ mine = [t \in Threads |-> None]
    /\ over = [t \in Threads |-> None]
    /\ scopes = [t \in Threads |-> <<>>]
    /\ exc = [t \in Threads |-> None]

\* ------------------------------------------------------------ the transport
\* What one socket.recv(BUFFER_SIZE) followed by .decode(ENCODING) can do on
\* connection c: return 1..BUFFER_SIZE of the waiting bytes as text, return ''
\* once the peer has closed, or raise. With nothing waiting on an open
\* connection it blocks (no outcome). n is the number of bytes taken.
read(c) ==
    {[kind |-> IF Decodable(SubSeq(rx[c], 1, n)) THEN "text" ELSE "UnicodeDecodeError",
      n |-> n,
      text |-> IF Decodable(SubSeq(rx[c], 1, n)) THEN Decode(SubSeq(rx[c], 1, n)) ELSE <<>>]
        : n \in 1..Min(Len(rx[c]), BUFFER_SIZE)}
    \cup (IF rx[c] = <<>> /\ ending = "eof"
          THEN {[kind |-> "text", n |-> 0, text |-> <<>>]} ELSE {})
    \cup (IF rx[c] = <<>> /\ ending = "reset"
          THEN {[kind |-> "OSError", n |-> 0, text |-> <<>>]} ELSE {})

\* PacketIterator.__read_data: read() with OSError turned into None
read_data(i) ==
    {IF r.kind = "OSError" THEN [r EXCEPT !.kind = "None"] ELSE r : r \in read(logger[i])}

\* the bytes a read took leave the socket, and the reader has their text
Taken(i, r) ==
    /\ rx' = [rx EXCEPT ![logger[i]] = SubSeq(@, r.n + 1, Len(@))]
    /\ got' = [got EXCEPT ![i] = @ \o r.text]

\* the for loop over the iterator ends with exception e
Raise(i, e) ==
    /\ pc' = [pc EXCEPT ![i] = "done"]
    /\ raised' = [raised EXCEPT ![i] = e]

\* the record of the reads of one call: the chunks it got, and whether a read
\* returned '' (end of stream)
Noted(call, r) ==
    IF r.kind # "text" THEN call
    ELSE IF r.text = <<>> THEN [call EXCEPT !.eof = TRUE]
    ELSE [call EXCEPT !.chunks = Append(@, r.text)]

\* --------------------------------------------------- PacketIterator.__next__
\* next_buffer with the saved buffer not trusted: every call starts with a read
\* (buffer = self.__buffer + self.__read_data())
next_buffer_reread(i) ==
    /\ pc[i] = "idle"
    /\ \E r \in read_data(i) :
         /\ Taken(i, r)
         /\ cur' = [cur EXCEPT ![i] = Noted([NoCall EXCEPT !.buf0 = itBuffer[i]], r)]
         /\ \/ /\ r.kind = "text"
               /\ buffer' = [buffer EXCEPT ![i] = itBuffer[i] \o r.text]
               /\ pc' = [pc EXCEPT ![i] = "L44"]
               /\ UNCHANGED raised
            \/ /\ r.kind # "text"
               /\ Raise(i, IF r.kind = "None" THEN "StopIteration" ELSE r.kind)
               /\ UNCHANGED buffer
    /\ UNCHANGED <<sent, parsing, registry, scoping, stream, ending, logger, itBuffer, out>>

\* buffer = self.__buffer or self.__read_data()
\* self.__check_none(buffer, StopIteration)
next_buffer(i) ==
    /\ pc[i] = "idle"
    /\ \/ /\ itBuffer[i] # <<>>
          /\ buffer' = [buffer EXCEPT ![i] = itBuffer[i]]
          /\ pc' = [pc EXCEPT ![i] = "L44"]
          /\ cur' = [cur EXCEPT ![i] = [NoCall EXCEPT !.buf0 = itBuffer[i]]]
          /\ UNCHANGED <<rx, got, raised>>
       \/ /\ itBuffer[i] = <<>>
          /\ \E r \in read_data(i) :
               /\ Taken(i, r)
               /\ cur' = [cur EXCEPT ![i] = Noted(NoCall, r)]
               /\ \/ /\ r.kind = "text"
                     /\ buffer' = [buffer EXCEPT ![i] = r.text]
                     /\ pc' = [pc EXCEPT ![i] = "L44"]
                     /\ UNCHANGED raised
                  \/ /\ r.kind = "None"
                     /\ Raise(i, "StopIteration")
                     /\ UNCHANGED buffer
                  \/ /\ r.kind = "UnicodeDecodeError"
                     /\ Raise(i, r.kind)
                     /\ UNCHANGED buffer
    /\ UNCHANGED <<sent, parsing, registry, scoping, stream, ending, logger, itBuffer, out>>

\* if not DELIM in buffer:
\*     more = self.__read_data(); self.__check_none(more, StopIteration)
\*     self.__buffer += more
next_more(i) ==
    /\ pc[i] = "L44"
    /\ \/ /\ Has(buffer[i], DELIM)
          /\ pc' = [pc EXCEPT ![i] = "L49"]
          /\ UNCHANGED <<rx, got, raised, itBuffer, cur>>
       \/ /\ ~Has(buffer[i], DELIM)
          /\ \E r \in read_data(i) :
               /\ Taken(i, r)
               /\ cur' = [cur EXCEPT ![i] = Noted(@, r)]
               /\ \/ /\ r.kind = "text"
                     /\ itBuffer' = [itBuffer EXCEPT ![i] = @ \o r.text]
                     /\ pc' = [pc EXCEPT ![i] = "L49"]
                     /\ UNCHANGED raised
                  \/ /\ r.kind = "None"
                     /\ Raise(i, "StopIteration")
                     /\ UNCHANGED itBuffer
                  \/ /\ r.kind = "UnicodeDecodeError"
                     /\ Raise(i, r.kind)
                     /\ UNCHANGED itBuffer
    /\ UNCHANGED <<sent, parsing, registry, scoping, stream, ending, logger, buffer, out>>

\* while DELIM not in buffer:
\*     buffer += self.__packet_logger.read()
next_while(i) ==
    /\ pc[i] = "L49"
    /\ \/ /\ Has(buffer[i], DELIM)
          /\ pc' = [pc EXCEPT ![i] = "L52"]
          /\ UNCHANGED <<rx, got, raised, buffer, cur>>
       \/ /\ ~Has(buffer[i], DELIM)
          /\ \E r \in read(logger[i]) :
               /\ Taken(i, r)
               /\ cur' = [cur EXCEPT ![i] = Noted(@, r)]
               /\ \/ /\ r.kind = "text"
                     /\ buffer' = [buffer EXCEPT ![i] = @ \o r.text]
                     /\ UNCHANGED <<pc, raised>>
                  \/ /\ r.kind \in {"OSError", "UnicodeDecodeError"}
                     /\ Raise(i, r.kind)
                     /\ UNCHANGED buffer
    /\ UNCHANGED <<sent, parsing, registry, scoping, stream, ending, logger, itBuffer, out>>

\* line, buffer = buffer.split(DELIM, 1); self.__buffer = buffer; return line
\* and the for loop calls __next__ again
next_split(i) ==
    /\ pc[i] = "L52"
    /\ out' = [out EXCEPT ![i] = Append(@, Split1(buffer[i], DELIM)[1])]
    /\ buffer' = [buffer EXCEPT ![i] = Split1(buffer[i], DELIM)[2]]
    /\ itBuffer' = [itBuffer EXCEPT ![i] = Split1(buffer[i], DELIM)[2]]
    /\ pc' = [pc EXCEPT ![i] = "idle"]
    /\ UNCHANGED <<sent, parsing, registry, scoping, stream, ending, rx, logger, raised, cur, got>>

next(i) == next_buffer(i) \/ next_more(i) \/ next_while(i) \/ next_split(i)

\* ------------------------------------------------ one reader on one connection
Init == InitWith(SeqsUpTo(StreamBytes, MaxStream), Endings, <<"c1", None>>) /\ NoParse /\ NoRegistry

Next == \E i \in {1} : next(i)

Spec == Init /\ [][Next]_vars

\* -------------------------- two readers, each on its own connection, same stream
InitChunking ==
    InitWith(SeqsUpTo(StreamBytes, MaxChunked), Endings, <<"c1", "c2">>) /\ NoParse /\ NoRegistry

NextChunking == \E i \in Iters : next(i)

SpecChunking == InitChunking /\ [][NextChunking]_vars

\* ------------------------------------------------------ Packet.from_string
\* the characters str.strip() removes and int() tolerates around a number
Whitespace ==
    (9..13) \cup (28..32) \cup {133, 160, 5760, 8232, 8233, 8239, 8287, 12288}
        \cup (8192..8202)

RECURSIVE LStrip(_)
LStrip(s) == IF s # <<>> /\ Head(s) \in Whitespace THEN LStrip(Tail(s)) ELSE s

RECURSIVE RStrip(_)
RStrip(s) ==
    IF s # <<>> /\ s[Len(s)] \in Whitespace THEN RStrip(SubSeq(s, 1, Len(s) - 1)) ELSE s

\* str.strip()
Strip(s) == RStrip(LStrip(s))

\* str.split(' '): cut at every space
RECURSIVE SplitAll(_)
SplitAll(s) ==
    IF ~Has(s, SP) THEN <<s>> ELSE <<Split1(s, SP)[1]>> \o SplitAll(Split1(s, SP)[2])

\* str.split(' ', 2): cut at the first two spaces
Split2(s) ==
    IF ~Has(s, SP) THEN <<s>>
    ELSE IF ~Has(Split1(s, SP)[2], SP) THEN Split1(s, SP)
    ELSE <<Split1(s, SP)[1]>> \o Split1(Split1(s, SP)[2], SP)

Digits == 48..57

RECURSIVE DigitsValue(_)
DigitsValue(ds) ==
    IF ds = <<>> THEN 0
    ELSE IF ds[Len(ds)] = 95 THEN DigitsValue(SubSeq(ds, 1, Len(ds) - 1))
    ELSE 10 * DigitsValue(SubSeq(ds, 1, Len(ds) - 1)) + (ds[Len(ds)] - 48)

\* int(tok): surrounding whitespace, one sign, decimal digits that single
\* underscores may separate; anything else is a ValueError. (Decimal digits
\* of other scripts, which int() also accepts, are outside the model.)
int(tok) ==
    LET t == Strip(tok)
        signed == t # <<>> /\ t[1] \in {43, 45}
        ds == IF signed THEN Tail(t) ELSE t
        wellFormed ==
            /\ ds # <<>>
            /\ \A k \in 1..Len(ds) : ds[k] \in Digits \cup {95}
            /\ ds[1] # 95 /\ ds[Len(ds)] # 95
            /\ \A k \in 1..(Len(ds) - 1) : ~(ds[k] = 95 /\ ds[k + 1] = 95)
    IN  IF ~wellFormed THEN [ok |-> FALSE, val |-> 0]
        ELSE [ok |-> TRUE,
              val |-> IF signed /\ t[1] = 45 THEN 0 - DigitsValue(ds) ELSE DigitsValue(ds)]

\* class PacketType(Enum): SEND = 1, RECEIVE = 0; PacketType(v) of another
\* value is a ValueError
PacketType(v) == IF v = 1 THEN "SEND" ELSE IF v = 0 THEN "RECEIVE" ELSE "ValueError"

\* Packet.from_string(packet)
from_string(text) ==
    LET parts == Split2(Strip(text)) IN
    IF Len(parts) < 3 THEN [kind |-> "None"]
    ELSE IF ~int(parts[1]).ok \/ PacketType(int(parts[1]).val) = "ValueError"
         THEN [kind |-> "ValueError"]
    ELSE [kind |-> "Packet", type |-> PacketType(int(parts[1]).val),
          header |-> parts[2], content |-> parts[3]]

\* a caller parses a line
parse ==
    /\ packet.kind = "pending"
    /\ packet' = from_string(line)
    /\ UNCHANGED <<framing, sent, line, registry, scoping>>

\* The characters of the parsed lines: ' ', '+', '0', '1', '9'.
LineChars == {32, 43, 48, 49, 57}

InitParse ==
    /\ InitWith({<<>>}, {"open"}, <<None, None>>)
    /\ NoRegistry
    /\ line \in SeqsUpTo(LineChars, MaxLine)
    /\ packet = [kind |-> "pending"]

NextParse == parse

SpecParse == InitParse /\ [][NextParse]_vars

\* ------------------------------------------- PacketLogger.send, a round trip
\* the connection at the other end of c's transport
Peer(c) == IF c = "c1" THEN "c2" ELSE "c1"

\* a frame without its delimiter
FrameOpen(direction, payload) == <<direction, SP>> \o payload

\* ('1 ' + packet + '\r') and ('0 ' + packet + '\r')
Frame(direction, payload) == <<direction, SP>> \o payload \o <<DELIM>>

\* one entry of the log of calls: the connection written to (None when the
\* call found none), who called (a thread for the module-level helpers, None
\* for a method call) and the connection that thread had registered
Sent(c, direction, payload, e, t) ==
    [conn |-> c, direction |-> direction, payload |-> payload, raised |-> e,
     by |-> t, owner |-> IF t = None THEN None ELSE mine[t]]

\* self.__socket.send((direction + ' ' + packet + '\r').encode(self.ENCODING))
\* on connection c: the encoded frame goes to the peer in one socket.send, or
\* str.encode raises and nothing is written
Transmit(c, direction, payload, t) ==
    /\ Len(sent) < MaxSends
    /\ IF Encodable(Frame(direction, payload))
       THEN /\ rx' = [rx EXCEPT ![Peer(c)] = @ \o Encode(Frame(direction, payload))]
            /\ sent' = Append(sent, Sent(c, direction, payload, None, t))
       ELSE /\ sent' = Append(sent, Sent(c, direction, payload, "UnicodeEncodeError", t))
            /\ UNCHANGED rx
    /\ UNCHANGED <<stream, ending, logger, itBuffer, buffer, pc, raised, out, cur, got>>
    /\ UNCHANGED parsing

\* PacketLogger.send(packet) on connection c
send(c, payload) ==
    /\ Transmit(c, 49, payload, None)
    /\ UNCHANGED <<registry, scoping>>

\* PacketLogger.receive(packet) on connection c
receive(c, payload) ==
    /\ Transmit(c, 48, payload, None)
    /\ UNCHANGED <<registry, scoping>>

\* packet = Packet.from_string(packet) on the line the iterator just returned
example2(i) ==
    /\ pc[i] = "idle"
    /\ out[i] # <<>>
    /\ line' = out[i][Len(out[i])]
    /\ packet' = from_string(out[i][Len(out[i])])
    /\ UNCHANGED <<framing, sent, registry, scoping>>

\* The characters of the payloads: ' ', 'x', the euro sign, and U+0081, which
\* windows-1252 cannot encode.
PayloadChars == {32, 120, 8364, 129}

\* c1 sends, the reader of c2 gets what c1 sent
InitRoundTrip ==
    /\ InitWith({<<>>}, {"open"}, <<None, "c2">>)
    /\ NoParse
    /\ NoRegistry

NextRoundTrip ==
    \/ \E payload \in SeqsUpTo(PayloadChars, MaxPayload) : send("c1", payload)
    \/ next(2)
    \/ example2(2)

SpecRoundTrip == InitRoundTrip /\ [][NextRoundTrip]_vars

\* ------------------------------------------------------------- the registry
\* a registry that appends instead of replacing
DictAdd(d, k, v) == d \cup {<<k, v>>}

\* d[k] = v
DictSet(d, k, v) == {p \in d : p[1] # k} \cup {<<k, v>>}

\* k in d
DictHas(d, k) == \E p \in d : p[1] = k

\* d.get(k, default)
DictGet(d, k, default) == IF DictHas(d, k) THEN (CHOOSE p \in d : p[1] = k)[2] ELSE default

\* d.pop(k), for a dict that has k
DictPop(d, k) == {p \in d : p[1] # k}

\* a key that is one per process, not one per thread (os.getpid())
getpid(t) == "t1"

\* threading.get_ident() in thread t: the threads of a run are alive together,
\* so their identifiers differ
get_ident(t) == t

\* thread t calls a registry method of connection c (get_global_instance is a
\* classmethod: c is None); the call has run its import statement
call(t, method, c) ==
    /\ tpc[t] = "idle"
    /\ exc[t] = None
    /\ tpc' = [tpc EXCEPT ![t] = method]
    /\ tself' = [tself EXCEPT ![t] = c]
    /\ UNCHANGED <<framing, sent, parsing, instances, ret, mine, over, scoping>>

\* self.__instances[get_ident()] = self
set_global(t) ==
    /\ tpc[t] = "set_global"
    /\ instances' = DictSet(instances, get_ident(t), tself[t])
    /\ tpc' = [tpc EXCEPT ![t] = "idle"]
    /\ ret' = [ret EXCEPT ![t] = [call |-> "set_global", val |-> None]]
    /\ mine' = [mine EXCEPT ![t] = tself[t]]
    /\ over' = [over EXCEPT ![t] = mine[t]]
    /\ UNCHANGED <<framing, sent, parsing, tself, scoping>>

\* a pop with a default, which ignores a missing key
PopQuiet(t, method) ==
    /\ instances' = DictPop(instances, get_ident(t))
    /\ ret' = [ret EXCEPT ![t] = [call |-> method, val |-> None]]
    /\ mine' = [mine EXCEPT ![t] = None]
    /\ over' = [over EXCEPT ![t] = None]
    /\ UNCHANGED exc

\* self.__instances.pop(get_ident()): KeyError when the thread has no mapping
Pop(t, method) ==
    /\ IF DictHas(instances, get_ident(t))
       THEN /\ instances' = DictPop(instances, get_ident(t))
            /\ ret' = [ret EXCEPT ![t] = [call |-> method, val |-> None]]
            /\ UNCHANGED exc
       ELSE /\ ret' = [ret EXCEPT ![t] = [call |-> method, val |-> "KeyError"]]
            /\ exc' = [exc EXCEPT ![t] = "KeyError"]
            /\ UNCHANGED instances
    /\ mine' = [mine EXCEPT ![t] = None]
    /\ over' = [over EXCEPT ![t] = None]

\* unset_global(self), called by thread t
unset_global(t) ==
    /\ tpc[t] = "unset_global"
    /\ Pop(t, "unset_global")
    /\ tpc' = [tpc EXCEPT ![t] = "idle"]
    /\ UNCHANGED <<framing, sent, parsing, tself, scopes>>

\* return cls.__instances.get(get_ident(), None)
get_global_instance(t) ==
    /\ tpc[t] = "get_global_instance"
    /\ ret' = [ret EXCEPT ![t] = [call |-> "get_global_instance",
                                  val |-> DictGet(instances, get_ident(t), None)]]
    /\ tpc' = [tpc EXCEPT ![t] = "idle"]
    /\ UNCHANGED <<framing, sent, parsing, instances, tself, mine, over, scoping>>

InitRegistry ==
    /\ InitWith({<<>>}, {"open"}, <<None, None>>)
    /\ NoParse
    /\ NoRegistry

NextRegistry ==
    \E t \in Threads :
        \/ \E c \in Conns : call(t, "set_global", c) \/ call(t, "unset_global", c)
        \/ call(t, "get_global_instance", None)
        \/ set_global(t)
        \/ unset_global(t)
        \/ get_global_instance(t)

SpecRegistry == InitRegistry /\ [][NextRegistry]_vars

\* ------------------------------------- with blocks and the module's helpers
\* the deepest nesting of with blocks in a thread
MaxDepth == 2

\* a lookup that falls back on a connection when the thread registered none
some_instance(t) == DictGet(instances, get_ident(t), "c1")

\* PacketLogger.get_global_instance() as thread t evaluates it in an expression
current_instance(t) == DictGet(instances, get_ident(t), None)

\* PacketLogger.get_global_instance().send(packet) and .receive(packet) in
\* thread t: without a registered connection the attribute lookup on None
\* raises AttributeError before anything is encoded or written
helper(t, direction, payload) ==
    /\ tpc[t] = "idle"
    /\ exc[t] = None
    /\ IF current_instance(t) = None
       THEN /\ Len(sent) < MaxSends
            /\ sent' = Append(sent, Sent(None, direction, payload, "AttributeError", t))
            /\ exc' = [exc EXCEPT ![t] = "AttributeError"]
            /\ UNCHANGED <<framing, parsing>>
       ELSE /\ Transmit(current_instance(t), direction, payload, t)
            /\ exc' = [exc EXCEPT ![t] = sent'[Len(sent')].raised]
    /\ UNCHANGED <<registry, scopes>>

\* send(packet), the function of the module
module_send(t, payload) == helper(t, 49, payload)

\* receive(packet), the function of the module
module_receive(t, payload) == helper(t, 48, payload)

\* an __exit__ that unregisters only when the body did not raise
exit_if_clean(t) ==
    /\ tpc[t] = "idle"
    /\ scopes[t] # <<>>
    /\ IF exc[t] = None
       THEN Pop(t, "__exit__")
       ELSE /\ ret' = [ret EXCEPT ![t] = [call |-> "__exit__", val |-> None]]
            /\ UNCHANGED <<instances, exc, mine, over>>
    /\ scopes' = [scopes EXCEPT ![t] = SubSeq(@, 1, Len(@) - 1)]
    /\ UNCHANGED <<framing, sent, parsing, tpc, tself>>

\* `with c:` in thread t, __enter__: self.set_global(); return self
enter(t, c) ==
    /\ tpc[t] = "idle"
    /\ exc[t] = None
    /\ Len(scopes[t]) < MaxDepth
    /\ instances' = DictSet(instances, get_ident(t), c)
    /\ ret' = [ret EXCEPT ![t] = [call |-> "__enter__", val |-> c]]
    /\ mine' = [mine EXCEPT ![t] = c]
    /\ over' = [over EXCEPT ![t] = mine[t]]
    /\ scopes' = [scopes EXCEPT ![t] = Append(@, c)]
    /\ UNCHANGED <<framing, sent, parsing, tpc, tself, exc>>

\* the end of the innermost with block of thread t, reached by its body
\* finishing or by an exception leaving it, __exit__: self.unset_global();
\* __exit__ returns None, so an exception of the body goes on propagating
exit(t) ==
    /\ tpc[t] = "idle"
    /\ scopes[t] # <<>>
    /\ Pop(t, "__exit__")
    /\ scopes' = [scopes EXCEPT ![t] = SubSeq(@, 1, Len(@) - 1)]
    /\ UNCHANGED <<framing, sent, parsing, tpc, tself>>

\* the packets the bodies of the with blocks send: 'x', and U+0081, which
\* windows-1252 cannot encode
ScopePayloads == {<<120>>, <<129>>}

InitScope ==
    /\ InitWith({<<>>}, {"open"}, <<None, None>>)
    /\ NoParse
    /\ NoRegistry

NextScope ==
    \E t \in Threads :
        \/ \E c \in Conns : enter(t, c)
        \/ exit(t)
        \/ \E payload \in ScopePayloads : module_send(t, payload)
        \/ \E payload \in ScopePayloads : module_receive(t, payload)

SpecScope == InitScope /\ [][NextScope]_vars

\* ------------------------------------------ example5: a reader and a writer
\* one thread iterates over the connection while the main thread calls its
\* send and receive
InitDuplex ==
    /\ InitWith(SeqsUpTo(StreamBytes, MaxChunked), {"open"}, <<"c1", None>>)
    /\ NoParse
    /\ NoRegistry

NextDuplex ==
    \/ next(1)
    \/ \E payload \in ScopePayloads : send("c1", payload)
    \/ \E payload \in ScopePayloads : receive("c1", payload)

SpecDuplex == InitDuplex /\ [][NextDuplex]_vars

\* ------------------------------------------------- streams with empty lines
\* the longest stream of the runs about empty lines
MaxEmpty == 5

\* streams of 'a' and '\r' only, read in every chunking, each returned line
\* handed to from_string as example2 does
InitEmpty ==
    /\ InitWith(SeqsUpTo({DELIM, 97}, MaxEmpty), {"open"}, <<"c1", None>>)
    /\ NoParse
    /\ NoRegistry

NextEmpty ==
    \/ next(1)
    \/ example2(1)

SpecEmpty == InitEmpty /\ [][NextEmpty]_vars

\* ------------------------------------- iteration sessions of one connection
\* an iterator that starts from what another iterator of the connection holds
iter_inherit(i, c) ==
    /\ pc[i] = "none"
    /\ logger' = [logger EXCEPT ![i] = c]
    /\ itBuffer' = [itBuffer EXCEPT ![i] =
                       IF \E j \in Iters : logger[j] = c
                       THEN itBuffer[CHOOSE j \in Iters : logger[j] = c]
                       ELSE <<>>]
    /\ pc' = [pc EXCEPT ![i] = "idle"]
    /\ UNCHANGED <<stream, ending, rx, buffer, raised, out, cur, got>>
    /\ UNCHANGED <<sent, parsing, registry, scoping>>

\* PacketLogger.__iter__ on connection c, return PacketIterator(self):
\* iterator i is the new object, __init__ gives it an empty buffer
iter(i, c) ==
    /\ pc[i] = "none"
    /\ logger' = [logger EXCEPT ![i] = c]
    /\ itBuffer' = [itBuffer EXCEPT ![i] = <<>>]
    /\ pc' = [pc EXCEPT ![i] = "idle"]
    /\ UNCHANGED <<stream, ending, rx, buffer, raised, out, cur, got>>
    /\ UNCHANGED <<sent, parsing, registry, scoping>>

\* a first for loop over the connection is under way when a second one starts
InitSessions ==
    /\ InitWith(SeqsUpTo(StreamBytes, MaxChunked), {"open"}, <<"c1", None>>)
    /\ NoParse
    /\ NoRegistry

NextSessions ==
    \/ iter(2, "c1")
    \/ next(1)
    \/ next(2)

SpecSessions == InitSessions /\ [][NextSessions]_vars

\* ------------------------------------------------------------------ claims
Live == {i \in Iters : logger[i] # None}

IsPrefix(s, t) == Len(s) <= Len(t) /\ SubSeq(t, 1, Len(s)) = s

Last(s) == s[Len(s)]

\* the complete (delimiter-terminated) lines of a text, in order
RECURSIVE CompleteLines(_)
CompleteLines(text) ==
    IF ~Has(text, DELIM) THEN <<>>
    ELSE <<Split1(text, DELIM)[1]>> \o CompleteLines(Split1(text, DELIM)[2])

\* C1: two readers given the same character stream, cut into chunks in two
\* ways, return the same lines: at any moment the lines one has returned are
\* the first lines the other has returned or will return.
C1_ChunkInvariance ==
    Decodable(stream) =>
        \A i, j \in Live : IsPrefix(out[i], out[j]) \/ IsPrefix(out[j], out[i])

\* C2: with N complete lines, a non-empty tail and then end of stream, a reader
\* that has been told the stream ended (a read returned '') has returned
\* exactly the N lines and ended with StopIteration.
C2_TailDiscarded ==
    \A i \in Live :
        (/\ Decodable(stream) /\ ending = "eof"
         /\ stream # <<>> /\ Last(stream) # DELIM
         /\ cur[i].eof)
        => /\ pc[i] = "done" /\ raised[i] = "StopIteration"
           /\ out[i] = CompleteLines(Decode(stream))

\* C3: a call entered with an empty buffer whose first read returns '' (end of
\* stream) ends with StopIteration.
C3_EofEndsSequence ==
    \A i \in Live :
        (cur[i].buf0 = <<>> /\ cur[i].chunks = <<>> /\ cur[i].eof)
        => (pc[i] = "done" /\ raised[i] = "StopIteration")

\* C4: an OSError of any read of a call never reaches the caller of __next__:
\* the sequence ends with StopIteration.
C4_ReadErrorEndsSequence ==
    \A i \in Live : raised[i] # "OSError"

\* C5: a call whose saved buffer holds a delimiter reads nothing and returns
\* the text before that delimiter; and a call entered with an empty buffer
\* whose chunk holds two delimiters reads only that chunk, returns its first
\* line and saves the rest, so that the next call is such a call and returns
\* the second line.
C5_BufferedLineNoRead ==
    \A i \in Live :
        /\ Has(cur[i].buf0, DELIM) =>
              /\ cur[i].chunks = <<>> /\ ~cur[i].eof /\ pc[i] # "done"
              /\ pc[i] = "idle" =>
                    /\ Last(out[i]) = Split1(cur[i].buf0, DELIM)[1]
                    /\ itBuffer[i] = Split1(cur[i].buf0, DELIM)[2]
        /\ (/\ cur[i].buf0 = <<>> /\ cur[i].chunks # <<>>
            /\ Count(cur[i].chunks[1], DELIM) >= 2) =>
              /\ Len(cur[i].chunks) = 1 /\ ~cur[i].eof /\ pc[i] # "done"
              /\ pc[i] = "idle" =>
                    /\ Last(out[i]) = Split1(cur[i].chunks[1], DELIM)[1]
                    /\ itBuffer[i] = Split1(cur[i].chunks[1], DELIM)[2]
                    /\ Has(itBuffer[i], DELIM)

\* one chunk 'a\r?\r' gave two non-empty lines, the second without a read
C5_Witness ==
    /\ pc[1] = "idle" /\ Len(out[1]) = 2
    /\ out[1][1] # <<>> /\ out[1][2] # <<>>
    /\ Has(cur[1].buf0, DELIM) /\ cur[1].chunks = <<>>
    /\ cur[1].buf0 = SubSeq(Decode(stream), Len(out[1][1]) + 2, Len(stream))

\* the first space-separated token of a text, and what follows its space
FirstToken(text) == IF Has(text, SP) THEN Split1(text, SP)[1] ELSE text

AfterFirstToken(text) == IF Has(text, SP) THEN Split1(text, SP)[2] ELSE <<>>

\* C6: after send(P), P without '\r', the first line the reader at the other
\* end returns is '1 ' + P, and from_string of that line is the packet
\* {SEND, first token of P, rest of P}.
C6_RoundTrip ==
    \A i \in Live :
        (/\ Len(sent) = 1 /\ ~Has(sent[1].payload, DELIM)
         /\ out[i] # <<>>)
        => /\ out[i][1] = <<49, SP>> \o sent[1].payload
           /\ (Len(out[i]) = 1 /\ packet.kind # "pending") =>
                 packet = [kind |-> "Packet", type |-> "SEND",
                           header |-> FirstToken(sent[1].payload),
                           content |-> AfterFirstToken(sent[1].payload)]

\* C7: from_string returns None exactly when the trimmed line has fewer than
\* two spaces, so fewer than 3 parts. A packet it returns is the trimmed line
\* cut at its first two spaces: a space-free direction token, the header, and
\* the whole remainder as the content; and for the tokens '1' and '0' it does
\* return a packet, of type SEND and RECEIVE.
C7_FromString ==
    packet.kind # "pending" =>
        LET t == Strip(line) IN
        /\ packet.kind = "None" <=> Count(t, SP) < 2
        /\ packet.kind = "Packet" =>
              LET n == Len(t) - Len(packet.header) - Len(packet.content) - 2 IN
              /\ n >= 0
              /\ t = SubSeq(t, 1, n) \o <<SP>> \o packet.header \o <<SP>> \o packet.content
              /\ ~Has(SubSeq(t, 1, n), SP) /\ ~Has(packet.header, SP)
              /\ SubSeq(t, 1, n) = <<49>> => packet.type = "SEND"
              /\ SubSeq(t, 1, n) = <<48>> => packet.type = "RECEIVE"
        /\ (Count(t, SP) >= 2 /\ FirstToken(t) \in {<<48>>, <<49>>}) =>
              packet.kind = "Packet"

\* '0 9' + content with a space in it gave {RECEIVE, '9', content}
C7_Witness ==
    /\ packet.kind = "Packet" /\ packet.type = "RECEIVE"
    /\ packet.header = <<57>>
    /\ Has(packet.content, SP) /\ Has(packet.content, 57)

\* C8: a line of at least 3 parts whose first token is neither '0' nor '1'
\* makes from_string raise.
C8_BadDirectionRaises ==
    (/\ packet.kind # "pending"
     /\ Count(Strip(line), SP) >= 2
     /\ FirstToken(Strip(line)) \notin {<<48>>, <<49>>})
    => packet.kind = "ValueError"

\* C9: the registry holds at most one connection per identity, and what
\* get_global_instance returned to a thread is the connection of the thread's
\* latest set_global, None after its unset_global.
C9_LastWriteWins ==
    /\ \A p, q \in instances : p[1] = q[1] => p = q
    /\ \A t \in Threads :
          (tpc[t] = "idle" /\ ret[t].call = "get_global_instance") => ret[t].val = mine[t]

\* t1 registered c1, then c2 over it, and got c2
C9_Witness ==
    /\ over["t1"] = "c1" /\ mine["t1"] = "c2"
    /\ tpc["t1"] = "idle"
    /\ ret["t1"] = [call |-> "get_global_instance", val |-> "c2"]

\* C10: under every interleaving the registry maps each thread to the
\* connection that thread registered last and has not unregistered, and a step
\* of one thread leaves the mapping of every other thread as it was.
C10_Isolation ==
    /\ [](\A t \in Threads : DictGet(instances, t, None) = mine[t])
    /\ [][\A t \in Threads :
             tpc'[t] = tpc[t] =>
                 DictGet(instances', t, None) = DictGet(instances, t, None)]_vars

\* t1 got its own c1 while t2, registered with c2, is inside unset_global
C10_Witness ==
    /\ ret["t1"] = [call |-> "get_global_instance", val |-> "c1"]
    /\ tpc["t1"] = "idle"
    /\ mine["t2"] = "c2"
    /\ tpc["t2"] = "unset_global"

\* the bytes the logged calls wrote to the transport of connection c, in order
RECURSIVE Written(_, _)
Written(log, c) ==
    IF log = <<>> THEN <<>>
    ELSE Written(SubSeq(log, 1, Len(log) - 1), c)
         \o (IF Last(log).conn = c /\ Last(log).raised = None
             THEN Encode(Frame(Last(log).direction, Last(log).payload))
             ELSE <<>>)

\* C11: a call of the module's send(packet) or receive(packet) by a thread
\* that has no registered connection fails with an error (the error the
\* specification calls NoActiveConnection is Python's AttributeError on None)
\* and writes nothing to any transport; a call by a thread that registered
\* connection c is c.send(packet), respectively c.receive(packet): the only
\* bytes any transport ever carries are the frames of the calls that found a
\* connection.
C11_HelperNeedsConnection ==
    /\ \A k \in 1..Len(sent) :
        sent[k].by # None =>
            IF sent[k].owner = None
            THEN sent[k].conn = None /\ sent[k].raised = "AttributeError"
            ELSE /\ sent[k].conn = sent[k].owner
                 /\ sent[k].raised = (IF Encodable(sent[k].payload) THEN None
                                      ELSE "UnicodeEncodeError")
    /\ \A c \in Conns : rx[Peer(c)] = Written(sent, c)

\* t1 called send without a connection of its own while t2 had one: the call
\* raised and no transport carries a byte
C11_Witness ==
    /\ Len(sent) = 1
    /\ sent[1].by = "t1"
    /\ sent[1].direction = 49
    /\ sent[1].raised = "AttributeError"
    /\ exc["t1"] = "AttributeError"
    /\ DictGet(instances, "t2", None) = "c2"
    /\ \A c \in Conns : rx[c] = <<>>

\* C12: entering `with connection:` registers the connection for the calling
\* thread, and every end of a with block, whether its body finished or
\* raised, leaves the calling thread without a mapping, so that a thread
\* outside every with block has none and get_global_instance returns None.
C12_ScopedRegistration ==
    /\ [](\A t \in Threads : scopes[t] = <<>> => ~DictHas(instances, t))
    /\ [][\A t \in Threads :
            /\ Len(scopes'[t]) > Len(scopes[t])
                => DictGet(instances', t, None) = Last(scopes'[t])
            /\ Len(scopes'[t]) < Len(scopes[t])
                => DictGet(instances', t, None) = None]_vars

\* the body of t1's `with c1:` raised in send, on a packet that cannot be
\* encoded, the block has ended and t1 has no mapping
C12_Witness ==
    /\ scopes["t1"] = <<>>
    /\ exc["t1"] = "UnicodeEncodeError"
    /\ ret["t1"] = [call |-> "__exit__", val |-> None]
    /\ Len(sent) = 1 /\ sent[1].by = "t1" /\ sent[1].conn = "c1"
    /\ DictGet(instances, "t1", None) = None

\* C13: unset_global called by a thread that has no mapping is not silently
\* ignored: the call raises (KeyError) to its caller, and the registry, with
\* the mappings of all other threads, is left as it was.
C13_UnsetWithoutMapping ==
    [][\A t \in Threads :
        (tpc[t] = "unset_global" /\ tpc'[t] = "idle" /\ ~DictHas(instances, t))
            => /\ ret'[t] = [call |-> "unset_global", val |-> "KeyError"]
               /\ exc'[t] = "KeyError"
               /\ instances' = instances]_vars

\* t1 called unset_global without a mapping while t2 was registered with c2:
\* t1 got KeyError and t2's mapping is still there
C13_Witness ==
    /\ ret["t1"] = [call |-> "unset_global", val |-> "KeyError"]
    /\ exc["t1"] = "KeyError"
    /\ tpc["t1"] = "idle"
    /\ instances = {<<"t2", "c2">>}

RECURSIVE Joined(_)
Joined(lines) ==
    IF lines = <<>> THEN <<>>
    ELSE Joined(SubSeq(lines, 1, Len(lines) - 1)) \o Last(lines) \o <<DELIM>>

\* C15: no character is lost while accumulating: after every __next__ call
\* that returned a line, the lines yielded so far, each followed by one
\* delimiter, followed by the saved buffer, are exactly the characters the
\* iterator has read from the transport so far.
C15_NothingLost ==
    \A i \in Live :
        (pc[i] = "idle" /\ out[i] # <<>>) => Joined(out[i]) \o itBuffer[i] = got[i]

\* C16: whenever __next__ returns a line L from the working chunk W, L holds
\* no delimiter and W = L + DELIM + R, where R, which may hold further
\* delimiters, is the buffer saved for the next call; L is the one line the
\* call adds to those yielded.
C16_SplitAtFirstDelimiter ==
    [][\A i \in Live :
        (pc[i] = "L52" /\ pc'[i] = "idle") =>
            /\ out'[i] = Append(out[i], Last(out'[i]))
            /\ ~Has(Last(out'[i]), DELIM)
            /\ buffer[i] = Last(out'[i]) \o <<DELIM>> \o itBuffer'[i]]_vars

\* a call returned 'a' from a working chunk that held two delimiters: the
\* second one is in the saved buffer
C16_Witness ==
    /\ pc[1] = "idle"
    /\ out[1] = <<<<97>>>>
    /\ itBuffer[1] = <<97, 13>>

\* C17: an empty line of the text the iterator has read (a delimiter right
\* after the previous delimiter, in the same chunk or in the next one) is
\* yielded in its place as the empty string, neither skipped nor merged with
\* the line after it, and from_string of the empty string returns None.
C17_EmptyLineYielded ==
    /\ \A i \in Live :
        pc[i] = "idle" =>
            \A k \in 1..Min(Len(out[i]), Len(CompleteLines(got[i]))) :
                CompleteLines(got[i])[k] = <<>> => out[i][k] = <<>>
    /\ (packet.kind # "pending" /\ line = <<>>) => packet.kind = "None"

\* s can be had from t by deleting characters
RECURSIVE IsSubseq(_, _)
IsSubseq(s, t) ==
    IF s = <<>> THEN TRUE
    ELSE IF t = <<>> THEN FALSE
    ELSE IF s[1] = t[1] THEN IsSubseq(Tail(s), Tail(t))
    ELSE IsSubseq(s, Tail(t))

\* C18: each __iter__ call makes a new PacketIterator with an empty buffer of
\* its own. Iterators over the same connection share no buffer: what an
\* iterator has yielded and holds in its buffer was read by that iterator
\* itself, and a step of one iterator (a __next__ call or the creation of the
\* iterator) leaves the buffer and the yielded lines of every other iterator
\* as they were.
C18_OwnBuffer ==
    /\ [](\A i \in Live : IsSubseq(Joined(out[i]) \o itBuffer[i], got[i]))
    /\ [][\A i \in Iters :
            /\ (pc[i] = "none" /\ pc'[i] # "none")
                => (itBuffer'[i] = <<>> /\ out'[i] = <<>>)
            /\ (pc'[i] = pc[i] /\ got'[i] = got[i])
                => /\ itBuffer'[i] = itBuffer[i]
                   /\ buffer'[i] = buffer[i]
                   /\ out'[i] = out[i]]_vars

\* two iterators over c1: the first returned the empty line and holds 'a' in
\* its buffer; the second, created later, returned the next empty line and
\* holds nothing
C18_Witness ==
    /\ logger = <<"c1", "c1">>
    /\ pc = <<"idle", "idle">>
    /\ out[1] = <<<<>>>> /\ itBuffer[1] = <<97>>
    /\ out[2] = <<<<>>>> /\ itBuffer[2] = <<>>

\* iterator i is inside a __next__ call, at a read that cannot return: the
\* connection is open and has no byte for it
Blocked(i) ==
    /\ pc[i] \in {"L44", "L49"}
    /\ ~Has(buffer[i], DELIM)
    /\ read(logger[i]) = {}

\* C19: when the characters the iterator has received hold a complete,
\* delimiter-terminated line it has not yielded yet, the current (or next)
\* __next__ call returns that line without needing more data from the peer:
\* __next__ is never blocked in a read while it has received more delimiters
\* than it has yielded lines.
C19_NoBlockWithLineReceived ==
    \A i \in Live : Count(got[i], DELIM) > Len(out[i]) => ~Blocked(i)

\* C20: while a thread is inside a `with c:` block, also after a nested
\* `with d:` of the same thread has ended, the thread's current connection
\* is that of its innermost open block, so get_global_instance returns c and
\* the module's send and receive work; the end of a block removes only a
\* mapping to the connection of that block, so that no end of a block fails
\* with KeyError.
C20_ScopeOwnership ==
    \A t \in Threads :
        /\ (scopes[t] # <<>> /\ exc[t] = None)
            => DictGet(instances, t, None) = Last(scopes[t])
        /\ exc[t] # "KeyError"

====
